---- MODULE Spec2Model ----
(***************************************************************************)
(* gnim-utils (src/index.ts): adapters between gnim's reactive Accessor    *)
(* and GObject property hosts.                                             *)
(*                                                                         *)
(* Five state machines share the variables below:                          *)
(*   SpecNested     createAccessorBinding / createSecureAccessorBinding    *)
(*   SpecSecure     createSecureBinding                                    *)
(*   SpecScoped     createSubscription / createScopedConnection            *)
(*   SpecConstruct  construct                                              *)
(*   SpecPure       toBoolean, transformWidget                             *)
(*                                                                         *)
(* The collaborators (gnim's Accessor and Scope, GObject's connect,        *)
(* disconnect and notify emission) are not part of src/; they are modelled *)
(* from the contracts of spec sections 3 and 6.                            *)
(***************************************************************************)
EXTENDS Integers, Sequences, FiniteSets, TLC

\* ---------------------------------------------------------------- bounds
\* number of subscribers that may subscribe to a derived accessor
MaxSubs == 2
\* number of entries of the props object handed to construct
MaxProps == 2
\* length of the arrays handed to toBoolean and transformWidget
MaxLen == 2

\* ---------------------------------------------------------------- values
Hosts == {"A", "B"}
Undefined == "undefined"
Null == "null"
Absent == {Undefined, Null}
HostRef == Hosts \cup Absent
\* values a host's property takes
PropVals == {"1", "2"}
\* marks a property that is not an own property of the host object
Missing == "<missing>"
DefaultValue == "-1"
TypeError == "TypeError"
Subscribers == 1..MaxSubs
\* property names, as sequences of characters
Props == {<<"x">>, <<"p", "V">>}
ScopedCallbacks == {"subscription", "connection"}

VARIABLES
    prop,       \* the property name the binding under test was created with
    kind,       \* which nested binding was created: "accessor" | "secure" | "none"
    outer,      \* current value of the outer accessor (accessorObject / baseObject)
    outerSubs,  \* listeners subscribed to the outer accessor
    hostProp,   \* host -> own value of property `prop`, or Missing
    disposed,   \* host -> has the GObject been disposed
    handlers,   \* host -> connected signal handlers
    nextId,     \* next handler id GObject hands out (positive, process-wide)
    gobj,       \* nested bindings: `let gobj`
    notify,     \* nested bindings: `let notify` (0 = still undefined)
    subs,       \* nested bindings: per subscriber, its subscription closure
    sbGobj,     \* createSecureBinding: the `gobj` argument
    sbSubs,     \* createSecureBinding: per subscriber, its subscription closure
    scope,      \* ambient scope: registered cleanups, disposed flag
    created,    \* which scoped helpers have been called
    fired,      \* subscriber -> times its callback ran during the last step
    called,     \* scoped callback -> times it ran during the last step
    raised,     \* did the last step propagate an exception to its caller
    last,       \* the last step taken
    props,      \* construct: the props object, its entries in key order
    klass,      \* construct: field name -> value of the target instance
    isGObject,  \* construct: klass instanceof GObject.Object
    accVal,     \* accessor -> its current value
    accSubs,    \* listeners construct has subscribed, in subscription order
    subsOut,    \* construct: the returned array of release functions
    reassigned, \* fields re-assigned by listeners during the last construct step
    notified,   \* klass.notify calls made during the last construct step
    pc,         \* construct: "start" before the call, "constructed" after it
    input,      \* toBoolean / transformWidget: the argument
    output      \* toBoolean / transformWidget: what the last call returned

\* state of the bindings and scoped helpers, less scope and the step history
coreVars == <<prop, kind, outer, outerSubs, hostProp, disposed, handlers, nextId,
              gobj, notify, subs, sbGobj, sbSubs, created>>
constructVars == <<props, klass, isGObject, accVal, accSubs, subsOut, reassigned,
                   notified, pc>>
pureVars == <<input, output>>

vars == <<prop, kind, outer, outerSubs, hostProp, disposed, handlers, nextId,
          gobj, notify, subs, sbGobj, sbSubs, scope, created, fired, called,
          raised, last, constructVars, pureVars>>

\* ------------------------------------------------------------ JS helpers
\* `!v` / `v &&` / `v ?` on an object reference
Truthy(v) == v \notin Absent

\* (prop as string).replace(/[A-Z]/g, (s) => `-${s.toLowerCase()}`)
UpperCase == {"P", "V", "X"}
ToLowerCase(c) == CASE c = "P" -> "p" [] c = "V" -> "v" [] c = "X" -> "x" [] OTHER -> c

RECURSIVE Kebab(_)
Kebab(s) ==
    IF s = <<>> THEN <<>>
    ELSE (IF Head(s) \in UpperCase THEN <<"-", ToLowerCase(Head(s))>> ELSE <<Head(s)>>)
         \o Kebab(Tail(s))

\* `notify::${...}`
NotifySignal(p) == <<"notify::">> \o Kebab(p)

\* Object.hasOwn(gobj, prop)
HasOwn(h) == hostProp[h] # Missing
\* gobj[prop]
PropRead(h) == IF hostProp[h] = Missing THEN Undefined ELSE hostProp[h]

\* -------------------------------------------------- GObject (collaborator)
\* canonical GObject name of each property: the detail of its notify signal
GParamName(p) ==
    CASE p = <<"x">> -> <<"x">>
      [] p = <<"p", "V">> -> <<"p", "-", "v">>
      [] p = <<"o", "n", "X">> -> <<"o", "n", "-", "x">>
HostNotifySignal(p) == <<"notify::">> \o GParamName(p)

NoHandlers == [h \in Hosts |-> {}]
Handler(id, sig, owner, sub) == [id |-> id, signal |-> sig, owner |-> owner, sub |-> sub]

\* gobj.connect(signal, handler) -> id
Connect(hs, h, sig, owner, sub) ==
    [hs EXCEPT ![h] = @ \cup {Handler(nextId, sig, owner, sub)}]

\* gobj.disconnect(id): raises on a disposed host, else drops the handler
DisconnectRaises(h) == disposed[h]
Disconnect(hs, h, id) ==
    IF disposed[h] THEN hs ELSE [hs EXCEPT ![h] = {x \in @ : x.id # id}]

\* handlers of host h run by an emission of the notify signal of `prop`
Emitted(h) == {x \in handlers[h] : x.signal = HostNotifySignal(prop)}

NoneFired == [s \in Subscribers |-> 0]
NoneCalled == [c \in ScopedCallbacks |-> 0]
Step(op, sub, host, from, to) == [op |-> op, sub |-> sub, host |-> host, from |-> from, to |-> to]

\* ------------------------------------------------ nested property bindings
\* NewGobj with the assignment `gobj = newBase` lost
NewGobjStale(newBase) == IF ~Truthy(newBase) THEN Undefined ELSE gobj

\* createAccessorBinding / createSecureAccessorBinding, the body of the
\* accessorObject.subscribe callback: the host the binding tracks from now on
NewGobj(newBase) == IF ~Truthy(newBase) THEN Undefined ELSE newBase

\* `notify!()`: the callback held by `let notify` runs n times
NotifyCalls(n) == [s \in Subscribers |-> IF notify = s THEN n ELSE 0]
\* `notify!()` while `let notify` is still undefined is a TypeError
NotifyRaises == notify = 0

\* createAccessorBinding: () => gobj![prop]
AccessorBindingGet == IF Truthy(gobj) THEN PropRead(gobj) ELSE TypeError
\* createSecureAccessorBinding: () => gobj ? gobj[prop] : defaultValue
SecureAccessorBindingGet == IF Truthy(gobj) THEN PropRead(gobj) ELSE DefaultValue
\* get() of the derived accessor
Get == IF kind = "accessor" THEN AccessorBindingGet ELSE SecureAccessorBindingGet

\* const id = gobj?.connect(...): the host the inner listener goes to ("" = none)
InnerConnectHost == IF Truthy(gobj) THEN gobj ELSE ""
\* id && gobj?.disconnect(id): the host the disconnect is issued to ("" = none)
InnerDisconnectHost(id) == IF id # 0 /\ Truthy(gobj) THEN gobj ELSE ""
\* the dispose function releases the outer listener: baseSub()
ReleaseBaseSub(ls) == ls \ {"baseSub"}

Idle == [state |-> "idle", id |-> 0, on |-> ""]
LiveSubs == {s \in Subscribers : subs[s].state = "live"}
DoneSubs == {s \in Subscribers : subs[s].state = "done"}
\* inner listeners this binding has connected on host h
NestedOn(h) == {x \in handlers[h] : x.owner = "nested"}

\* callbacks run by the handlers in hs
FiredBy(hs) ==
    [s \in Subscribers |->
        Cardinality({x \in hs : \/ x.owner = "nested" /\ notify = s
                                \/ x.owner = "secure" /\ x.sub = s})]
CalledBy(hs) ==
    [NoneCalled EXCEPT !["connection"] = Cardinality({x \in hs : x.owner = "connection"})]

\* the outer accessor's value changes and its listeners run
OuterSet(v) ==
    /\ v # outer
    /\ outer' = v
    /\ IF "baseSub" \in outerSubs
       THEN /\ gobj' = NewGobj(v)
            /\ fired' = NotifyCalls(1)
            /\ raised' = NotifyRaises
       ELSE /\ gobj' = gobj
            /\ fired' = NoneFired
            /\ raised' = FALSE
    /\ called' = [NoneCalled EXCEPT
                    !["subscription"] = IF "subscription" \in outerSubs THEN 1 ELSE 0]
    /\ last' = Step("OuterSet", 0, "", outer, v)
    /\ UNCHANGED <<constructVars, pureVars>>
    /\ UNCHANGED <<prop, kind, outerSubs, hostProp, disposed, handlers, nextId,
                   notify, subs, sbGobj, sbSubs, scope, created>>

\* the property changes on host h and the host emits its notify signal
HostSet(h, v) ==
    /\ ~disposed[h]
    /\ hostProp[h] # v
    /\ hostProp' = [hostProp EXCEPT ![h] = v]
    /\ fired' = FiredBy(Emitted(h))
    /\ called' = CalledBy(Emitted(h))
    /\ raised' = FALSE
    /\ last' = Step("HostSet", 0, h, hostProp[h], v)
    /\ UNCHANGED <<constructVars, pureVars>>
    /\ UNCHANGED <<prop, kind, outer, outerSubs, disposed, handlers, nextId, gobj,
                   notify, subs, sbGobj, sbSubs, scope, created>>

\* accessor.subscribe(callback) on the derived accessor
Subscribe(s) ==
    /\ kind \in {"accessor", "secure"}
    /\ subs[s].state = "idle"
    /\ notify' = s
    /\ IF InnerConnectHost # ""
       THEN /\ handlers' = Connect(handlers, InnerConnectHost, NotifySignal(prop), "nested", s)
            /\ nextId' = nextId + 1
            /\ subs' = [subs EXCEPT ![s] = [state |-> "live", id |-> nextId, on |-> InnerConnectHost]]
       ELSE /\ subs' = [subs EXCEPT ![s] = [state |-> "live", id |-> 0, on |-> ""]]
            /\ UNCHANGED <<handlers, nextId>>
    /\ fired' = NoneFired
    /\ called' = NoneCalled
    /\ raised' = FALSE
    /\ last' = Step("Subscribe", s, InnerConnectHost, "", "")
    /\ UNCHANGED <<constructVars, pureVars>>
    /\ UNCHANGED <<prop, kind, outer, outerSubs, hostProp, disposed, gobj, sbGobj,
                   sbSubs, scope, created>>

\* the dispose function returned by that subscribe
Unsubscribe(s) ==
    LET target == InnerDisconnectHost(subs[s].id)
        throws == target # "" /\ DisconnectRaises(target)
    IN  /\ subs[s].state = "live"
        /\ handlers' = IF target # "" THEN Disconnect(handlers, target, subs[s].id) ELSE handlers
        /\ outerSubs' = IF throws THEN outerSubs ELSE ReleaseBaseSub(outerSubs)
        /\ subs' = [subs EXCEPT ![s].state = "done"]
        /\ fired' = NoneFired
        /\ called' = NoneCalled
        /\ raised' = throws
        /\ last' = Step("Unsubscribe", s, target, "", "")
        /\ UNCHANGED <<constructVars, pureVars>>
        /\ UNCHANGED <<prop, kind, outer, hostProp, disposed, nextId, gobj, notify,
                       sbGobj, sbSubs, scope, created>>

InitCommon ==
    /\ prop \in Props
    /\ hostProp = [h \in Hosts |-> IF h = "A" THEN "1" ELSE "2"]
    /\ disposed = [h \in Hosts |-> FALSE]
    /\ handlers = NoHandlers
    /\ nextId = 1
    /\ notify = 0
    /\ subs = [s \in Subscribers |-> Idle]
    /\ sbSubs = [s \in Subscribers |-> Idle]
    /\ scope = [cleanups |-> <<>>, disposed |-> FALSE]
    /\ created = {}
    /\ fired = NoneFired
    /\ called = NoneCalled
    /\ raised = FALSE
    /\ last = Step("create", 0, "", "", "")

\* construct has no part in this state machine
InitNoConstruct ==
    /\ props = <<>>
    /\ klass = <<>>
    /\ isGObject = FALSE
    /\ accVal = <<>>
    /\ accSubs = <<>>
    /\ subsOut = <<>>
    /\ reassigned = {}
    /\ notified = <<>>
    /\ pc = "none"

\* toBoolean and transformWidget have no part in this state machine
InitNoPure ==
    /\ input = <<>>
    /\ output = <<>>

\* state after createAccessorBinding(accessorObject, prop) or
\* createSecureAccessorBinding(baseObject, prop, defaultValue) returns
InitNested ==
    /\ InitCommon
    /\ InitNoConstruct
    /\ InitNoPure
    /\ kind \in {"accessor", "secure"}
    /\ outer \in HostRef
    /\ gobj = outer
    /\ outerSubs = {"baseSub"}
    /\ sbGobj = Undefined

NextNested ==
    \/ \E v \in HostRef : OuterSet(v)
    \/ \E h \in Hosts, v \in PropVals : HostSet(h, v)
    \/ \E s \in Subscribers : Subscribe(s)
    \/ \E s \in Subscribers : Unsubscribe(s)

SpecNested == InitNested /\ [][NextNested]_vars

\* ------------------------------------------------------ host life cycle
\* `delete host[prop]`: the property is no longer an own property; no signal
HostDelete(h) ==
    /\ hostProp[h] # Missing
    /\ hostProp' = [hostProp EXCEPT ![h] = Missing]
    /\ fired' = NoneFired
    /\ called' = NoneCalled
    /\ raised' = FALSE
    /\ last' = Step("HostDelete", 0, h, hostProp[h], Missing)
    /\ UNCHANGED <<constructVars, pureVars>>
    /\ UNCHANGED <<prop, kind, outer, outerSubs, disposed, handlers, nextId, gobj,
                   notify, subs, sbGobj, sbSubs, scope, created>>

\* the GObject is disposed: its handlers go with it, the JS object stays
HostDispose(h) ==
    /\ ~disposed[h]
    /\ disposed' = [disposed EXCEPT ![h] = TRUE]
    /\ handlers' = [handlers EXCEPT ![h] = {}]
    /\ fired' = NoneFired
    /\ called' = NoneCalled
    /\ raised' = FALSE
    /\ last' = Step("HostDispose", 0, h, "", "")
    /\ UNCHANGED <<constructVars, pureVars>>
    /\ UNCHANGED <<prop, kind, outer, outerSubs, hostProp, nextId, gobj, notify,
                   subs, sbGobj, sbSubs, scope, created>>

\* ---------------------------------------------------- createSecureBinding
\* SecureBindingGet with the Object.hasOwn test lost
SecureBindingGetNoHasOwn ==
    IF Truthy(sbGobj) THEN PropRead(sbGobj) ELSE DefaultValue

\* const get = () => gobj && Object.hasOwn(gobj, prop) ? gobj[prop] : defaultValue
SecureBindingGet ==
    IF Truthy(sbGobj) /\ HasOwn(sbGobj) THEN PropRead(sbGobj) ELSE DefaultValue

\* the dispose function without its try/catch
UncaughtDisconnectRaises(h) == DisconnectRaises(h)

\* try { gobj.disconnect(id) } catch(e) {}: nothing reaches the caller
CaughtDisconnectRaises(h) == FALSE

\* handlers the subscription of s holds on host h
SecureOn(h, s) == {x \in handlers[h] : x.owner = "secure" /\ x.sub = s}

\* accessor.subscribe(callback) on the accessor of createSecureBinding
SbSubscribe(s) ==
    /\ sbSubs[s].state = "idle"
    /\ IF ~Truthy(sbGobj)
       THEN \* gobj.connect on undefined/null: TypeError, nothing subscribed
            /\ raised' = TRUE
            /\ UNCHANGED <<handlers, nextId, sbSubs>>
       ELSE /\ ~disposed[sbGobj]
            /\ handlers' = Connect(handlers, sbGobj, NotifySignal(prop), "secure", s)
            /\ nextId' = nextId + 1
            /\ sbSubs' = [sbSubs EXCEPT ![s] = [state |-> "live", id |-> nextId, on |-> sbGobj]]
            /\ raised' = FALSE
    /\ fired' = NoneFired
    /\ called' = NoneCalled
    /\ last' = Step("SbSubscribe", s, sbGobj, "", "")
    /\ UNCHANGED <<constructVars, pureVars>>
    /\ UNCHANGED <<prop, kind, outer, outerSubs, hostProp, disposed, gobj, notify,
                   subs, sbGobj, scope, created>>

\* the dispose function returned by that subscribe
SbUnsubscribe(s) ==
    /\ sbSubs[s].state = "live"
    /\ handlers' = Disconnect(handlers, sbGobj, sbSubs[s].id)
    /\ raised' = CaughtDisconnectRaises(sbGobj)
    /\ sbSubs' = [sbSubs EXCEPT ![s].state = "done"]
    /\ fired' = NoneFired
    /\ called' = NoneCalled
    /\ last' = Step("SbUnsubscribe", s, sbGobj, "", "")
    /\ UNCHANGED <<constructVars, pureVars>>
    /\ UNCHANGED <<prop, kind, outer, outerSubs, hostProp, disposed, nextId, gobj,
                   notify, subs, sbGobj, scope, created>>

\* state after createSecureBinding(gobj, prop, defaultValue) returns
InitSecure ==
    /\ InitCommon
    /\ InitNoConstruct
    /\ InitNoPure
    /\ kind = "none"
    /\ outer = Undefined
    /\ gobj = Undefined
    /\ outerSubs = {}
    /\ sbGobj \in HostRef

NextSecure ==
    \/ \E h \in Hosts, v \in PropVals : HostSet(h, v)
    \/ \E h \in Hosts : HostDelete(h)
    \/ \E h \in Hosts : HostDispose(h)
    \/ \E s \in Subscribers : SbSubscribe(s)
    \/ \E s \in Subscribers : SbUnsubscribe(s)

SpecSecure == InitSecure /\ [][NextSecure]_vars

\* ------------------------------ createSubscription, createScopedConnection
UnsubscribeCleanup == [do |-> "unsubscribe", host |-> "", id |-> 0]
DisconnectCleanup(h, id) == [do |-> "disconnect", host |-> h, id |-> id]

\* scope.onCleanup(fn)
OnCleanup(sc, fn) == [sc EXCEPT !.cleanups = Append(@, fn)]

\* createSubscription with the scope.onCleanup(sub) call lost
SubscriptionScopeLeaky(sc) == sc

\* createSubscription: scope.onCleanup(sub)
SubscriptionScope(sc) == OnCleanup(sc, UnsubscribeCleanup)

\* createScopedConnection: scope.onCleanup(() => gobj.disconnect(id))
ConnectionScope(sc, h, id) == OnCleanup(sc, DisconnectCleanup(h, id))

\* createSubscription(accessor, callback) on the outer accessor
CreateSubscription ==
    /\ ~scope.disposed
    /\ "subscription" \notin created
    /\ outerSubs' = outerSubs \cup {"subscription"}
    /\ scope' = SubscriptionScope(scope)
    /\ created' = created \cup {"subscription"}
    /\ fired' = NoneFired
    /\ called' = NoneCalled
    /\ raised' = FALSE
    /\ last' = Step("CreateSubscription", 0, "", "", "")
    /\ UNCHANGED <<constructVars, pureVars>>
    /\ UNCHANGED <<prop, kind, outer, hostProp, disposed, handlers, nextId, gobj,
                   notify, subs, sbGobj, sbSubs>>

\* createScopedConnection(gobj, signal, callback), signal the notify of `prop`
CreateScopedConnection(h) ==
    /\ ~scope.disposed
    /\ "connection" \notin created
    /\ ~disposed[h]
    /\ handlers' = Connect(handlers, h, HostNotifySignal(prop), "connection", 0)
    /\ nextId' = nextId + 1
    /\ scope' = ConnectionScope(scope, h, nextId)
    /\ created' = created \cup {"connection"}
    /\ fired' = NoneFired
    /\ called' = NoneCalled
    /\ raised' = FALSE
    /\ last' = Step("CreateScopedConnection", 0, h, "", "")
    /\ UNCHANGED <<constructVars, pureVars>>
    /\ UNCHANGED <<prop, kind, outer, outerSubs, hostProp, disposed, gobj, notify,
                   subs, sbGobj, sbSubs>>

\* the effect of running the registered cleanups cs, in registration order
RECURSIVE RunCleanups(_, _)
RunCleanups(cs, st) ==
    IF cs = <<>> THEN st
    ELSE LET c == Head(cs)
             next == IF c.do = "unsubscribe"
                     THEN [st EXCEPT !.listeners = @ \ {"subscription"}]
                     ELSE [st EXCEPT
                             !.handlers = Disconnect(@, c.host, c.id),
                             !.raised = @ \/ DisconnectRaises(c.host)]
         IN  RunCleanups(Tail(cs), next)

\* the ambient scope is torn down: every registered cleanup runs once
ScopeDispose ==
    LET end == RunCleanups(scope.cleanups,
                   [listeners |-> outerSubs, handlers |-> handlers, raised |-> FALSE])
    IN  /\ ~scope.disposed
        /\ outerSubs' = end.listeners
        /\ handlers' = end.handlers
        /\ raised' = end.raised
        /\ scope' = [cleanups |-> <<>>, disposed |-> TRUE]
        /\ fired' = NoneFired
        /\ called' = NoneCalled
        /\ last' = Step("ScopeDispose", 0, "", "", "")
        /\ UNCHANGED <<constructVars, pureVars>>
        /\ UNCHANGED <<prop, kind, outer, hostProp, disposed, nextId, gobj, notify,
                       subs, sbGobj, sbSubs, created>>

\* state inside a live ambient scope, before any scoped helper is called
InitScoped ==
    /\ InitCommon
    /\ InitNoConstruct
    /\ InitNoPure
    /\ kind = "none"
    /\ outer \in HostRef
    /\ gobj = Undefined
    /\ outerSubs = {}
    /\ sbGobj = Undefined

NextScoped ==
    \/ \E v \in HostRef : OuterSet(v)
    \/ \E h \in Hosts, v \in PropVals : HostSet(h, v)
    \/ \E h \in Hosts : HostDispose(h)
    \/ CreateSubscription
    \/ \E h \in Hosts : CreateScopedConnection(h)
    \/ ScopeDispose

SpecScoped == InitScoped /\ [][NextScoped]_vars

\* ---------------------------------------------------------------- construct
\* field names of the target instance, keys of the props object
Keys == Props \cup {<<"o", "n", "X">>}
Accessors == {"a1", "a2"}
\* value of a field construct never assigned
InitialField == "init"
Entry(k, t, v) == [key |-> k, kind |-> t, val |-> v]
\* an entry holds undefined, a plain value, or an accessor
Entries ==
    {Entry(k, "undefined", Undefined) : k \in Keys}
    \cup {Entry(k, "plain", v) : k \in Keys, v \in PropVals}
    \cup {Entry(k, "accessor", a) : k \in Keys, a \in Accessors}
\* props objects: an object has each key once, Object.keys keeps their order
PropsObjects ==
    {es \in UNION {[1..n -> Entries] : n \in 0..MaxProps} :
        \A i, j \in DOMAIN es : es[i].key = es[j].key => i = j}

\* AssignEntry with the `if(v === undefined) return` guard lost
AssignEntryNoSkip(e, f) ==
    IF e.kind = "accessor" THEN [f EXCEPT ![e.key] = accVal[e.val]]
    ELSE [f EXCEPT ![e.key] = e.val]

\* the forEach body's effect on the fields: skip undefined, assign v.get()
\* for an accessor, assign v itself otherwise
AssignEntry(e, f) ==
    IF e.kind = "undefined" THEN f
    ELSE IF e.kind = "accessor" THEN [f EXCEPT ![e.key] = accVal[e.val]]
    ELSE [f EXCEPT ![e.key] = e.val]

RECURSIVE ConstructFields(_, _)
ConstructFields(es, f) ==
    IF es = <<>> THEN f ELSE ConstructFields(Tail(es), AssignEntry(Head(es), f))

\* SubscribesTo that also subscribes for plain entries
SubscribesToAll(e) == e.kind # "undefined"

\* if(v instanceof Accessor) subs.push(v.subscribe(...))
SubscribesTo(e) == e.kind = "accessor"

\* the listeners construct subscribes, in the order of the keys
ConstructListeners(es) ==
    LET sel == SelectSeq(es, SubscribesTo)
    IN  [i \in 1..Len(sel) |-> [acc |-> sel[i].val, key |-> sel[i].key]]

\* ListenerValue reading the accessor's value from before the change
ListenerValueStale(a, new) == accVal[a]

\* the value a listener assigns: v.get(), read after the change
ListenerValue(a, new) == new

\* NotifyName without the camelCase to kebab-case mapping
NotifyNameRaw(k) == k

\* k.replace(/[A-Z]/g, (s) => `-${s.toLowerCase()}`)
NotifyName(k) == Kebab(k)

\* one listener runs: klass[k] = v.get(); if(isGObject) klass.notify(...)
RunListener(l, new, st) ==
    LET fields == [st.fields EXCEPT ![l.key] = ListenerValue(l.acc, new)]
    IN  [fields |-> fields,
         notes |-> IF isGObject
                   THEN Append(st.notes, [name |-> NotifyName(l.key), seen |-> fields[l.key]])
                   ELSE st.notes]

RECURSIVE RunListeners(_, _, _)
RunListeners(ls, new, st) ==
    IF ls = <<>> THEN st ELSE RunListeners(Tail(ls), new, RunListener(Head(ls), new, st))

\* construct(klass, props)
Construct ==
    /\ pc = "start"
    /\ klass' = ConstructFields(props, klass)
    /\ accSubs' = accSubs \o ConstructListeners(props)
    /\ subsOut' = [i \in DOMAIN ConstructListeners(props) |->
                     [acc |-> ConstructListeners(props)[i].acc,
                      key |-> ConstructListeners(props)[i].key,
                      released |-> FALSE]]
    /\ reassigned' = {}
    /\ notified' = <<>>
    /\ pc' = "constructed"
    /\ fired' = NoneFired
    /\ called' = NoneCalled
    /\ raised' = FALSE
    /\ last' = Step("Construct", 0, "", "", "")
    /\ UNCHANGED <<coreVars, scope, pureVars, props, isGObject, accVal>>

\* accessor a changes to v and its listeners run in subscription order
AccSet(a, v) ==
    LET ls == SelectSeq(accSubs, LAMBDA l : l.acc = a)
        end == RunListeners(ls, v, [fields |-> klass, notes |-> <<>>])
    IN  /\ accVal[a] # v
        /\ accVal' = [accVal EXCEPT ![a] = v]
        /\ klass' = end.fields
        /\ reassigned' = {ls[i].key : i \in DOMAIN ls}
        /\ notified' = end.notes
        /\ fired' = NoneFired
        /\ called' = NoneCalled
        /\ raised' = FALSE
        /\ last' = Step("AccSet", 0, a, accVal[a], v)
        /\ UNCHANGED <<coreVars, scope, pureVars, props, isGObject, accSubs, subsOut, pc>>

\* the caller calls the i-th release function construct returned
Release(i) ==
    /\ pc = "constructed"
    /\ i \in DOMAIN subsOut
    /\ ~subsOut[i].released
    /\ subsOut' = [subsOut EXCEPT ![i].released = TRUE]
    /\ accSubs' = SelectSeq(accSubs,
                      LAMBDA l : ~(l.acc = subsOut[i].acc /\ l.key = subsOut[i].key))
    /\ reassigned' = {}
    /\ notified' = <<>>
    /\ fired' = NoneFired
    /\ called' = NoneCalled
    /\ raised' = FALSE
    /\ last' = Step("Release", i, subsOut[i].acc, "", "")
    /\ UNCHANGED <<coreVars, scope, pureVars, props, klass, isGObject, accVal, pc>>

\* state inside a live ambient scope, before construct(klass, props) is called
InitConstruct ==
    /\ InitCommon
    /\ InitNoPure
    /\ kind = "none"
    /\ outer = Undefined
    /\ gobj = Undefined
    /\ outerSubs = {}
    /\ sbGobj = Undefined
    /\ props \in PropsObjects
    /\ klass = [k \in Keys |-> InitialField]
    /\ isGObject \in BOOLEAN
    /\ accVal = [a \in Accessors |-> IF a = "a1" THEN "1" ELSE "2"]
    /\ accSubs = <<>>
    /\ subsOut = <<>>
    /\ reassigned = {}
    /\ notified = <<>>
    /\ pc = "start"

NextConstruct ==
    \/ Construct
    \/ \E a \in Accessors, v \in PropVals : AccSet(a, v)
    \/ \E i \in 1..MaxProps : Release(i)
    \/ ScopeDispose

SpecConstruct == InitConstruct /\ [][NextConstruct]_vars

\* ------------------------------------------------ toBoolean, transformWidget
\* JavaScript values: a scalar is a one-item record naming its literal, an
\* array lists the literals of its items
ScalarLits == {"emptyString", "x", "0", "1", "NaN", "true", "false", "undefined",
               "null", "object"}
ItemLits == {"0", "1"}
Scalar(lit) == [array |-> FALSE, items |-> <<lit>>]
Array(items) == [array |-> TRUE, items |-> items]
Values ==
    {Scalar(l) : l \in ScalarLits}
    \cup {Array(is) : is \in UNION {[1..n -> ItemLits] : n \in 0..MaxLen}}
\* the argument: the value itself, or an accessor holding it
Inputs == [reactive : BOOLEAN, value : Values]

\* Array.isArray(v)
IsArray(v) == v.array
\* Boolean(v): every object, arrays included, is truthy
JSBoolean(v) ==
    IF v.array THEN TRUE
    ELSE v.items[1] \notin {"emptyString", "0", "NaN", "false", "undefined", "null"}

\* ToBooleanPlain with the Array.isArray branch lost
ToBooleanPlainNoArray(v) == JSBoolean(v)

\* toBoolean, plain input: Array.isArray(variable) ? variable.length > 0 : Boolean(variable)
ToBooleanPlain(v) == IF IsArray(v) THEN Len(v.items) > 0 ELSE JSBoolean(v)

\* toBoolean, accessor input: the function handed to variable.as
ToBooleanTransform(v) == IF IsArray(v) THEN Len(v.items) > 0 ELSE JSBoolean(v)

\* get() of the accessor made by variable.as(fn): fn of the upstream's value
DerivedGet == ToBooleanTransform(input.value)

\* TransformWidgetBranches deciding For / With by the wrong test
TransformWidgetBranchesSwapped(in) ==
    {b \in {"For", "With", "map", "call"} :
        \/ b = "For" /\ in.reactive /\ ~IsArray(in.value)
        \/ b = "With" /\ in.reactive /\ IsArray(in.value)
        \/ b = "map" /\ ~in.reactive /\ IsArray(in.value)
        \/ b = "call" /\ ~in.reactive /\ ~IsArray(in.value)}

\* transformWidget: the branches of the nested conditional that are taken
TransformWidgetBranches(in) ==
    {b \in {"For", "With", "map", "call"} :
        \/ b = "For" /\ in.reactive /\ IsArray(in.value)
        \/ b = "With" /\ in.reactive /\ ~IsArray(in.value)
        \/ b = "map" /\ ~in.reactive /\ IsArray(in.value)
        \/ b = "call" /\ ~in.reactive /\ ~IsArray(in.value)}

\* v.map(val => fn(val)): the arguments fn is called with, in call order
RECURSIVE MapCalls(_)
MapCalls(items) ==
    IF items = <<>> THEN <<>> ELSE <<Head(items)>> \o MapCalls(Tail(items))

\* the calls of fn that transformWidget itself makes before it returns
TransformWidgetCalls(in) ==
    IF in.reactive THEN <<>>
    ELSE IF IsArray(in.value) THEN MapCalls(in.value.items)
    ELSE <<in.value.items[1]>>

NoOutput(in) ==
    [fn |-> "none", at |-> in, reactive |-> FALSE, bool |-> FALSE, via |-> {},
     rendered |-> <<>>]

\* toBoolean(variable)
CallToBoolean ==
    /\ output' = [fn |-> "toBoolean", at |-> input, reactive |-> input.reactive,
                  bool |-> IF input.reactive THEN FALSE ELSE ToBooleanPlain(input.value),
                  via |-> {}, rendered |-> <<>>]
    /\ last' = Step("toBoolean", 0, "", "", "")
    /\ UNCHANGED <<coreVars, scope, constructVars, input, fired, called, raised>>

\* transformWidget(v, fn)
CallTransformWidget ==
    /\ output' = [fn |-> "transformWidget", at |-> input, reactive |-> input.reactive,
                  bool |-> FALSE, via |-> TransformWidgetBranches(input),
                  rendered |-> TransformWidgetCalls(input)]
    /\ last' = Step("transformWidget", 0, "", "", "")
    /\ UNCHANGED <<coreVars, scope, constructVars, input, fired, called, raised>>

\* the accessor handed in changes its value
UpstreamSet(v) ==
    /\ input.reactive
    /\ v # input.value
    /\ input' = [input EXCEPT !.value = v]
    /\ last' = Step("UpstreamSet", 0, "", "", "")
    /\ UNCHANGED <<coreVars, scope, constructVars, output, fired, called, raised>>

InitPure ==
    /\ InitCommon
    /\ InitNoConstruct
    /\ kind = "none"
    /\ outer = Undefined
    /\ gobj = Undefined
    /\ outerSubs = {}
    /\ sbGobj = Undefined
    /\ input \in Inputs
    /\ output = NoOutput(input)

NextPure ==
    \/ CallToBoolean
    \/ CallTransformWidget
    \/ \E v \in Values : UpstreamSet(v)

SpecPure == InitPure /\ [][NextPure]_vars

\* ------------------------------------------------------------------ claims
\* the host the outer accessor resolves to, as the bindings store it
Resolved == IF outer \in Hosts THEN outer ELSE Undefined
\* the binding has had subscribers but none has unsubscribed yet
FirstSubscription == DoneSubs = {} /\ LiveSubs # {}

\* C2: with one subscriber attached to a new binding while the outer accessor
\* resolves to a host, one change of the outer accessor to another host runs
\* that subscriber's callback exactly once; get() returns the old host's
\* property value before the change and the new host's value after it.
C2_HostReplacementNotifiesOnce ==
    [][ \A s \in Subscribers :
          (/\ LiveSubs = {s} /\ DoneSubs = {}
           /\ outer \in Hosts /\ outer' \in Hosts /\ outer' # outer)
          => /\ fired'[s] = 1
             /\ ~raised'
             /\ Get = hostProp[outer]
             /\ Get' = hostProp'[outer'] ]_vars

C2_Witness ==
    /\ last.op = "OuterSet" /\ last.from = "A" /\ last.to = "B"
    /\ LiveSubs = {1} /\ DoneSubs = {}
    /\ hostProp["A"] = "1" /\ hostProp["B"] = "2"
    /\ fired[1] = 1
    /\ Get = "2"

\* C3: after the outer accessor of a subscribed binding changes from host A
\* to another host B, no inner listener of the binding is left connected on
\* A, and a later change of the property on A runs no subscriber callback.
C3_OldHostListenerDisconnected ==
    /\ (/\ last.op = "OuterSet" /\ FirstSubscription
        /\ last.from \in Hosts /\ last.to \in Hosts)
       => NestedOn(last.from) = {}
    /\ (/\ last.op = "HostSet" /\ FirstSubscription
        /\ last.host # Resolved)
       => fired = NoneFired

\* C4: a subscriber that subscribes while the outer accessor resolves to an
\* absent host gets no inner listener then; once the outer accessor changes
\* to a present host H the inner listener is connected on H.
C4_LateHostGetsListener ==
    /\ (last.op = "Subscribe" /\ ~Truthy(gobj))
       => subs[last.sub].id = 0 /\ last.host = ""
    /\ (/\ last.op = "OuterSet" /\ FirstSubscription
        /\ last.from \in Absent /\ last.to \in Hosts)
       => NestedOn(last.to) # {}

\* C5: after a subscriber's unsubscribe, none of the inner listeners that
\* subscription connected is left on any host, the disconnect (if any) went
\* to the host the handler id came from, and the outer listener is released.
C5_UnsubscribeReleasesBoth ==
    last.op = "Unsubscribe"
    => /\ \A h \in Hosts : {x \in NestedOn(h) : x.sub = last.sub} = {}
       /\ last.host # "" => last.host = subs[last.sub].on
       /\ "baseSub" \notin outerSubs

\* C6: whenever the binding has a live subscriber (the one that subscribed
\* last), a change of the outer accessor updates the tracked host and runs
\* that subscriber's callback.
C6_LiveSubscriberSeesOuterChange ==
    (last.op = "OuterSet" /\ LiveSubs = {notify})
    => /\ gobj = Resolved
       /\ fired[notify] = 1

\* C7: createAccessorBinding: when the outer accessor of a subscribed binding
\* changes from a host to an absent value, get() returns undefined without
\* raising and the subscriber's callback runs once.
C7_AbsentHostReadsUndefined ==
    (/\ kind = "accessor" /\ last.op = "OuterSet"
     /\ last.from \in Hosts /\ last.to \in Absent
     /\ DoneSubs = {} /\ LiveSubs = {notify})
    => /\ Get = Undefined
       /\ fired[notify] = 1

\* C8: createSecureAccessorBinding: in every state where the outer accessor
\* resolves to an absent host, get() returns the default value; a subscribed
\* binding is notified exactly once when the host becomes absent.
C8_AbsentHostReadsDefault ==
    kind = "secure"
    => /\ outer \in Absent => Get = DefaultValue
       /\ (/\ last.op = "OuterSet" /\ last.from \in Hosts /\ last.to \in Absent
           /\ LiveSubs = {notify})
          => fired[notify] = 1

\* C1: once the ambient scope has been torn down, no later change of the
\* accessor and no later emission of the signal runs a callback registered
\* through createSubscription or createScopedConnection: both releases were
\* registered with the scope and ran at teardown.
C1_NoCallbackAfterTeardown ==
    scope.disposed
    => /\ called = NoneCalled
       /\ "subscription" \notin outerSubs
       /\ \A h \in Hosts : {x \in handlers[h] : x.owner = "connection"} = {}

C1_Witness ==
    /\ scope.disposed
    /\ created = {"subscription", "connection"}
    /\ last.op = "OuterSet"
    /\ called = NoneCalled

\* C9: get() of createSecureBinding returns the host's own value of the
\* property when the host is present and has it, the default value when the
\* host is absent or the property is gone, and never raises.
C9_SecureBindingReads ==
    /\ sbGobj \in Absent => SecureBindingGet = DefaultValue
    /\ (sbGobj \in Hosts /\ hostProp[sbGobj] = Missing) => SecureBindingGet = DefaultValue
    /\ (sbGobj \in Hosts /\ hostProp[sbGobj] \in PropVals) => SecureBindingGet = hostProp[sbGobj]
    /\ SecureBindingGet # TypeError

C9_Witness ==
    /\ last.op = "HostDelete" /\ last.host = sbGobj
    /\ last.from \in PropVals
    /\ SecureBindingGet = DefaultValue

\* C10: a subscription of createSecureBinding holds exactly one handler, on
\* the host's notify signal of the property, so a change of the property runs
\* its callback once; after its unsubscribe the handler is gone, and the
\* unsubscribe returns normally even when the host has been disposed.
C10_SecureSubscriptionLifecycle ==
    /\ \A s \in Subscribers :
         (sbSubs[s].state = "live" /\ ~disposed[sbGobj])
         => /\ Cardinality(SecureOn(sbGobj, s)) = 1
            /\ \A x \in SecureOn(sbGobj, s) : x.signal = HostNotifySignal(prop)
            /\ (last.op = "HostSet" /\ last.host = sbGobj) => fired[s] = 1
    /\ \A s \in Subscribers :
         sbSubs[s].state = "done" => \A h \in Hosts : SecureOn(h, s) = {}
    /\ last.op = "SbUnsubscribe" => ~raised

C10_Witness ==
    /\ last.op = "SbUnsubscribe"
    /\ sbGobj \in Hosts
    /\ disposed[sbGobj]
    /\ ~raised

\* C11: no disconnect this library performs on a host propagates an error
\* when the host has been disposed: not the unsubscribe of createSecureBinding,
\* not the unsubscribe of a nested binding, not the teardown cleanup of
\* createScopedConnection.
C11_DisconnectNeverRaises ==
    last.op \in {"SbUnsubscribe", "Unsubscribe", "ScopeDispose"} => ~raised

\* C19: a change of the outer accessor while the nested binding has never
\* been subscribed raises no error, and get() afterwards reads the host the
\* outer accessor resolves to now.
C19_ChangeBeforeFirstSubscribe ==
    (/\ last.op = "OuterSet" /\ kind \in {"accessor", "secure"}
     /\ LiveSubs = {} /\ DoneSubs = {})
    => /\ ~raised
       /\ gobj = Resolved

\* C20: with two live subscribers of the same derived accessor a change of
\* the outer accessor runs both callbacks, and after one of them alone has
\* unsubscribed a further change still runs the other's callback.
C20_SubscribersIndependent ==
    /\ (last.op = "OuterSet" /\ Cardinality(LiveSubs) >= 2 /\ DoneSubs = {})
       => \A s \in LiveSubs : fired[s] = 1
    /\ (last.op = "OuterSet" /\ LiveSubs # {} /\ DoneSubs # {})
       => \A s \in LiveSubs : fired[s] = 1

\* entries of the props object, by kind
EntriesOf(t) == {props[i] : i \in {j \in DOMAIN props : props[j].kind = t}}
\* keys whose release function the caller has called
ReleasedKeys == {subsOut[j].key : j \in {i \in DOMAIN subsOut : subsOut[i].released}}

\* C12: once construct has returned, the field of every plain-valued entry
\* holds that value and the field of every accessor-valued entry whose release
\* function has not been called holds the accessor's current value, also
\* after every later change of the accessor.
C12_FieldsFollowProps ==
    pc = "constructed"
    => /\ \A e \in EntriesOf("plain") : klass[e.key] = e.val
       /\ \A e \in EntriesOf("accessor") :
            e.key \notin ReleasedKeys => klass[e.key] = accVal[e.val]

C12_Witness ==
    /\ pc = "constructed"
    /\ last.op = "AccSet"
    /\ EntriesOf("plain") # {}
    /\ \E e \in EntriesOf("accessor") :
         /\ e.val = last.host /\ e.key \notin ReleasedKeys
         /\ klass[e.key] = last.to

\* C13: construct returns exactly one release function per accessor-valued
\* entry and none for the others, registers nothing with the scope, and after
\* a release function has been called a change of its accessor no longer
\* re-assigns the field.
C13_OneReleasePerAccessor ==
    pc = "constructed"
    => /\ Len(subsOut) = Cardinality(EntriesOf("accessor"))
       /\ \A j \in DOMAIN subsOut :
            \E e \in EntriesOf("accessor") :
                e.key = subsOut[j].key /\ e.val = subsOut[j].acc
       /\ scope.cleanups = <<>>
       /\ last.op = "AccSet"
          => \A j \in DOMAIN subsOut :
                subsOut[j].released => subsOut[j].key \notin reassigned

C13_Witness ==
    /\ pc = "constructed"
    /\ last.op = "AccSet"
    /\ \E j \in DOMAIN subsOut :
         /\ subsOut[j].released /\ subsOut[j].acc = last.host
         /\ klass[subsOut[j].key] = last.from
    /\ EntriesOf("plain") # {}

\* C14: after the ambient scope in which construct was called has been torn
\* down, a change of an accessor-valued prop no longer re-assigns the field.
C14_ScopeTeardownStopsUpdates ==
    (scope.disposed /\ last.op = "AccSet") => reassigned = {}

\* C15: on a GObject target each change of an accessor-valued entry k
\* re-assigns field k and then emits exactly one notify named by the
\* kebab-case form of k, whose listeners see the new value; nothing is
\* notified for the first assignment, for plain entries or for a target that
\* is not a GObject.
C15_NotifyAfterReassign ==
    /\ last.op = "Construct" => notified = <<>>
    /\ ~isGObject => notified = <<>>
    /\ (pc = "constructed" /\ last.op = "AccSet" /\ isGObject)
       => /\ \A e \in EntriesOf("accessor") :
               (e.val = last.host /\ e.key \notin ReleasedKeys) => e.key \in reassigned
          /\ \A k \in reassigned :
               /\ Cardinality({i \in DOMAIN notified : notified[i].name = GParamName(k)}) = 1
               /\ \A i \in DOMAIN notified :
                    notified[i].name = GParamName(k)
                    => notified[i].seen = last.to /\ klass[k] = last.to
          /\ \A i \in DOMAIN notified :
               \E e \in EntriesOf("accessor") :
                   e.key \in reassigned /\ notified[i].name = GParamName(e.key)

C15_Witness ==
    /\ pc = "constructed" /\ last.op = "AccSet" /\ isGObject
    /\ <<"p", "V">> \in reassigned
    /\ \E i \in DOMAIN notified : notified[i].name = <<"p", "-", "v">>
    /\ EntriesOf("plain") # {}

\* C16: an entry whose value is undefined is skipped: construct leaves the
\* field of that name as it was and creates no subscription for it, wherever
\* the entry stands among the keys.
C16_UndefinedSkipped ==
    pc = "constructed"
    => \A e \in EntriesOf("undefined") :
          /\ klass[e.key] = InitialField
          /\ \A j \in DOMAIN subsOut : subsOut[j].key # e.key
          /\ \A j \in DOMAIN accSubs : accSubs[j].key # e.key

C16_Witness ==
    /\ pc = "constructed"
    /\ Len(props) = 2
    /\ props[1].kind = "undefined"
    /\ props[2].kind = "accessor"
    /\ klass[props[1].key] = InitialField
    /\ klass[props[2].key] = accVal[props[2].val]

\* what the coercion rule of toBoolean gives for a value
CoercesTo(v) ==
    IF v.array THEN Len(v.items) > 0
    ELSE CASE v.items[1] \in {"emptyString", "0", "false", "undefined", "null"} -> FALSE
           [] v.items[1] \in {"x", "1", "true", "object"} -> TRUE
           [] v.items[1] = "NaN" -> FALSE

\* C17: toBoolean gives false for "", 0, false, undefined and null, true for
\* an array exactly when it has items, standard truthiness for anything else;
\* for an accessor it returns an accessor whose get() is that coercion of the
\* upstream's current value, after every upstream change.
C17_ToBooleanRule ==
    output.fn = "toBoolean"
    => IF output.at.reactive
       THEN output.reactive /\ DerivedGet = CoercesTo(input.value)
       ELSE ~output.reactive /\ output.bool = CoercesTo(output.at.value)

C17_Witness ==
    /\ output.fn = "toBoolean"
    /\ output.at.reactive
    /\ output.at.value = Array(<<"0">>)
    /\ last.op = "UpstreamSet"
    /\ input.value = Array(<<>>)
    /\ DerivedGet = FALSE

\* C18: transformWidget takes exactly one branch: For for an accessor holding
\* an array, With for an accessor holding a scalar, for a plain array one call
\* of the renderer per item in input order, for a plain scalar one call.
C18_TransformWidgetDispatch ==
    output.fn = "transformWidget"
    => LET in == output.at
       IN  /\ Cardinality(output.via) = 1
           /\ (in.reactive /\ in.value.array)
              => output.via = {"For"} /\ output.rendered = <<>>
           /\ (in.reactive /\ ~in.value.array)
              => output.via = {"With"} /\ output.rendered = <<>>
           /\ (~in.reactive /\ in.value.array)
              => output.via = {"map"} /\ output.rendered = in.value.items
           /\ (~in.reactive /\ ~in.value.array)
              => output.via = {"call"} /\ output.rendered = <<in.value.items[1]>>

C18_Witness ==
    /\ output.fn = "transformWidget"
    /\ ~output.at.reactive
    /\ output.at.value = Array(<<"1", "0">>)
    /\ output.via = {"map"}
    /\ output.rendered = <<"1", "0">>

====
